---- MODULE Spec2Model ----
(***************************************************************************)
(* Model of prophetable.Prophetable (src/app/prophetable.py): the config   *)
(* loader (__init__ / _get_config) and the three pipeline stages           *)
(* make_data, train and predict.                                           *)
(*                                                                         *)
(* Values.  Every JSON value, Python attribute value and data-frame cell   *)
(* is a record [t, n, s]: t is the type tag, n the numeric payload and s   *)
(* the text payload.  Python None is the JSON null.                        *)
(***************************************************************************)
EXTENDS Integers, Sequences, FiniteSets, TLC

\* ------------------------------------------------------------------------
\* Bounds of the model
\* ------------------------------------------------------------------------
MaxCfgKeys == 1      \* settings besides data_uri in a document (config family)
MaxOptKeys == 2      \* settings besides data_uri in a document (pipeline family)
MaxRows == 2         \* rows of the raw series
MaxDate == 3         \* calendar days 2020-01-01 .. 2020-01-0<MaxDate>

\* ------------------------------------------------------------------------
\* Values
\* ------------------------------------------------------------------------
Val(t, n, s) == [t |-> t, n |-> n, s |-> s]
JNull == Val("null", 0, "")
JBool(b) == Val("bool", IF b THEN 1 ELSE 0, "")
JInt(n) == Val("int", n, "")
JFloat(n, frac) == Val("float", n, frac)       \* n.frac, e.g. JFloat(0, "5") is 0.5
JStr(s) == Val("str", 0, s)
JList(s) == Val("list", 0, s)                  \* s: the rendered elements
JDict(s) == Val("dict", 0, s)
Ts(d) == Val("ts", d, "")                      \* pandas Timestamp, day number d
NaT == Val("nat", 0, "")                       \* pandas NaT
NaN == Val("nan", 0, "")                       \* the missing marker of a value cell
Absent == Val("absent", 0, "")                 \* no such column / no such attribute

\* The Python classes a JSON-decoded value is an instance of (isinstance):
\* json.load gives bool, int, float, str, list, dict or None, and bool is a
\* subclass of int.
PyClasses(v) ==
    CASE v.t = "bool"  -> {"bool", "int"}
      [] v.t = "int"   -> {"int"}
      [] v.t = "float" -> {"float"}
      [] v.t = "str"   -> {"str"}
      [] v.t = "list"  -> {"list"}
      [] v.t = "dict"  -> {"dict"}
      [] OTHER         -> {"NoneType"}

\* ------------------------------------------------------------------------
\* The settings, in the order __init__ resolves them
\* ------------------------------------------------------------------------
NoCheck == {}        \* type_check=None
Setting(name, required, default, check) ==
    [name |-> name, required |-> required, default |-> default, check |-> check]

Settings ==
    << Setting("data_uri", TRUE, JNull, NoCheck),
       Setting("train_uri", FALSE, JNull, NoCheck),
       Setting("output_uri", FALSE, JNull, NoCheck),
       Setting("model_uri", FALSE, JNull, NoCheck),
       Setting("holiday_input_uri", FALSE, JNull, NoCheck),
       Setting("holiday_output_uri", FALSE, JNull, NoCheck),
       Setting("delimiter", FALSE, JStr(","), NoCheck),
       Setting("ds", FALSE, JStr("ds"), NoCheck),
       Setting("y", FALSE, JStr("y"), NoCheck),
       Setting("ts_frequency", FALSE, JStr("D"), NoCheck),
       Setting("min_train_date", FALSE, JNull, NoCheck),
       Setting("max_train_date", FALSE, JNull, NoCheck),
       Setting("holidays", FALSE, JNull, NoCheck),
       Setting("saturating_min", FALSE, JNull, {"int", "float"}),
       Setting("saturating_max", FALSE, JNull, {"int", "float"}),
       Setting("na_fill", FALSE, JNull, {"int", "float"}),
       Setting("growth", FALSE, JStr("linear"), {"str"}),
       Setting("changepoints", FALSE, JNull, {"list"}),
       Setting("n_changepoints", FALSE, JInt(25), {"int"}),
       Setting("changepoint_range", FALSE, JFloat(0, "8"), {"float", "int"}),
       Setting("yearly_seasonality", FALSE, JStr("auto"), NoCheck),
       Setting("weekly_seasonality", FALSE, JStr("auto"), NoCheck),
       Setting("daily_seasonality", FALSE, JStr("auto"), NoCheck),
       Setting("holidays", FALSE, JNull, NoCheck),
       Setting("seasonality_mode", FALSE, JStr("additive"), {"str"}),
       Setting("seasonality_prior_scale", FALSE, JFloat(10, "0"), {"float", "int"}),
       Setting("holidays_prior_scale", FALSE, JFloat(10, "0"), {"float", "int"}),
       Setting("changepoint_prior_scale", FALSE, JFloat(0, "05"), {"float", "int"}),
       Setting("mcmc_samples", FALSE, JInt(0), {"int"}),
       Setting("interval_width", FALSE, JFloat(0, "8"), {"float"}),
       Setting("uncertainty_samples", FALSE, JInt(1000), {"int"}),
       Setting("stan_backend", FALSE, JNull, {"str"}),
       Setting("future_periods", FALSE, JInt(365), {"int"}) >>

SettingNames == {Settings[i].name : i \in 1..Len(Settings)}

\* ------------------------------------------------------------------------
\* _get_config: the outcome of resolving one setting against the document
\* ------------------------------------------------------------------------
NoError == [type |-> "none", attr |-> ""]
Raise(type, attr) == [type |-> type, attr |-> attr]

\* mutants of _get_config (a plausible slip each)
_get_config_ignores_required(doc, st) ==
    IF st.name \in DOMAIN doc
    THEN IF st.check # NoCheck /\ doc[st.name] # JNull
            /\ PyClasses(doc[st.name]) \cap st.check = {}
         THEN [err |-> Raise("TypeError", st.name), value |-> Absent]
         ELSE [err |-> NoError, value |-> doc[st.name]]
    ELSE [err |-> NoError, value |-> st.default]

_get_config_skips_type_check(doc, st) ==
    IF st.name \in DOMAIN doc
    THEN [err |-> NoError, value |-> doc[st.name]]
    ELSE IF st.required
         THEN [err |-> Raise("ValueError", st.name), value |-> Absent]
         ELSE [err |-> NoError, value |-> st.default]

_get_config_drops_default(doc, st) ==
    IF st.name \in DOMAIN doc
    THEN IF st.check # NoCheck /\ doc[st.name] # JNull
            /\ PyClasses(doc[st.name]) \cap st.check = {}
         THEN [err |-> Raise("TypeError", st.name), value |-> Absent]
         ELSE [err |-> NoError, value |-> doc[st.name]]
    ELSE IF st.required
         THEN [err |-> Raise("ValueError", st.name), value |-> Absent]
         ELSE [err |-> NoError, value |-> JNull]

_get_config(doc, st) ==
    IF st.name \in DOMAIN doc
    THEN \* try: set_attr = self._config[attr]
         IF st.check # NoCheck /\ doc[st.name] # JNull
            /\ PyClasses(doc[st.name]) \cap st.check = {}
         THEN [err |-> Raise("TypeError", st.name), value |-> Absent]
         ELSE [err |-> NoError, value |-> doc[st.name]]
    ELSE \* except KeyError
         IF st.required
         THEN [err |-> Raise("ValueError", st.name), value |-> Absent]
         ELSE [err |-> NoError, value |-> st.default]

\* __init__ (lines 94-154): the settings are resolved in order and the first
\* error aborts the construction; a setting resolved twice keeps the later
\* value.  Each resolution reads only the document, so the loop is the first
\* failing index, or the attributes of all when there is none.
LastIndex(name) ==
    CHOOSE i \in 1..Len(Settings) :
        /\ Settings[i].name = name
        /\ \A j \in 1..Len(Settings) : Settings[j].name = name => j <= i
SettingOf == [name \in SettingNames |-> Settings[LastIndex(name)]]

Resolve(doc) ==
    LET bad == {i \in 1..Len(Settings) : _get_config(doc, Settings[i]).err # NoError}
        first == CHOOSE i \in bad : \A j \in bad : i <= j
    IN IF bad = {}
       THEN [err |-> NoError,
             attrs |-> [name \in SettingNames |-> _get_config(doc, SettingOf[name]).value]]
       ELSE [err |-> _get_config(doc, Settings[first]).err,
             attrs |-> [name \in {Settings[i].name : i \in 1..(first - 1)} |->
                          _get_config(doc, SettingOf[name]).value]]

EmptyAttrs == [a \in {} |-> JNull]


\* ------------------------------------------------------------------------
\* Dates, frequencies, paths
\* ------------------------------------------------------------------------
Days == 1..MaxDate
\* the text of day d: January 2020 has the days the model uses, later days
\* (a forecast horizon) keep a distinct text
DateStr(d) == IF d < 10 THEN "2020-01-0" \o ToString(d) ELSE "2020-01-" \o ToString(d)
IsDateText(s) == \E d \in Days : DateStr(d) = s
ParseDate(s) == CHOOSE d \in Days : DateStr(d) = s

Num(n) == Val("num", n, "")                     \* a numeric cell
NumOf(v) == Val("num", v.n, v.s)                \* the number a JSON int, float or bool is

\* pd.to_datetime on one cell of the timestamp column
CanParseCell(c) == c.t \in {"ts", "nat", "nan"} \/ (c.t = "str" /\ IsDateText(c.s))
ParseCell(c) ==
    CASE c.t = "ts" -> c
      [] c.t = "str" -> Ts(ParseDate(c.s))
      [] OTHER -> NaT

\* pd.date_range's reading of its start / end argument
CanTimestamp(v) == v.t = "ts" \/ (v.t = "str" /\ IsDateText(v.s))
ToDay(v) == IF v.t = "ts" THEN v.n ELSE ParseDate(v.s)

\* the frequency strings the model knows: n-daily steps; None means daily
ValidFreq(v) == v = JNull \/ (v.t = "str" /\ v.s \in {"D", "2D"})
FreqStep(v) == IF v.t = "str" /\ v.s = "2D" THEN 2 ELSE 1

\* pathlib.PurePath(full).parts[:-1], for the paths the model uses
DataPath == "data.csv"
ParentDir(p) ==
    CASE p = "out/train.csv" -> "out"
      [] p = "out/model.pkl" -> "out"
      [] p = "out/forecast.csv" -> "out"
      [] OTHER -> ""
OutPaths == {"out/train.csv", "out/model.pkl", "out/forecast.csv", "train.csv"}

\* ------------------------------------------------------------------------
\* Data frames: a header and rows aligned with it
\* ------------------------------------------------------------------------
Frame(kind, cols, rows) == [kind |-> kind, cols |-> cols, rows |-> rows]
NoData == Frame("none", <<>>, <<>>)             \* self.data = None

HasCol(f, name) == \E i \in 1..Len(f.cols) : f.cols[i] = name
ColIdx(f, name) == CHOOSE i \in 1..Len(f.cols) : f.cols[i] = name
Cell(f, r, name) == f.rows[r][ColIdx(f, name)]

RECURSIVE SeqMin(_)
SeqMin(s) ==
    IF Len(s) = 1 THEN s[1]
    ELSE LET m == SeqMin(Tail(s)) IN IF s[1] <= m THEN s[1] ELSE m
RECURSIVE SeqMax(_)
SeqMax(s) ==
    IF Len(s) = 1 THEN s[1]
    ELSE LET m == SeqMax(Tail(s)) IN IF s[1] >= m THEN s[1] ELSE m

\* the days of a parsed timestamp column, NaT skipped
RECURSIVE ColDays(_, _, _)
ColDays(f, name, r) ==
    IF r > Len(f.rows) THEN <<>>
    ELSE (IF Cell(f, r, name).t = "ts" THEN <<Cell(f, r, name).n>> ELSE <<>>)
         \o ColDays(f, name, r + 1)

\* Series.min() / Series.max() of the timestamp column
ColMin(f, name) ==
    LET d == ColDays(f, name, 1) IN IF d = <<>> THEN NaT ELSE Ts(SeqMin(d))
ColMax(f, name) ==
    LET d == ColDays(f, name, 1) IN IF d = <<>> THEN NaT ELSE Ts(SeqMax(d))

\* pd.date_range(lo, hi, freq): lo, lo+step, ... up to hi
RECURSIVE date_range(_, _, _)
date_range(lo, hi, step) ==
    IF lo > hi THEN <<>> ELSE <<lo>> \o date_range(lo + step, hi, step)


\* ------------------------------------------------------------------------
\* CSV text <-> frames
\* ------------------------------------------------------------------------
Digits == 0..9
IsNumText(s) == \E n \in Digits : ToString(n) = s
ParseNum(s) == CHOOSE n \in Digits : ToString(n) = s

\* read_csv's type inference on one cell: empty is missing, digits a number
ReadCell(c) ==
    IF c.s = "" THEN NaN
    ELSE IF IsNumText(c.s) THEN Num(ParseNum(c.s)) ELSE JStr(c.s)

\* to_csv's rendering of one cell
WriteCell(c) ==
    CASE c.t = "ts" -> JStr(DateStr(c.n))
      [] c.t = "num" -> JStr(IF c.s = "" THEN ToString(c.n)
                             ELSE ToString(c.n) \o "." \o c.s)
      [] c.t = "str" -> c
      [] c.t = "yhat" -> JStr("yhat")
      [] OTHER -> JStr("")

ReadRows(f) ==
    [r \in 1..Len(f.rows) |-> [i \in 1..Len(f.cols) |-> ReadCell(f.rows[r][i])]]
WriteRows(f) ==
    [r \in 1..Len(f.rows) |-> [i \in 1..Len(f.cols) |-> WriteCell(f.rows[r][i])]]

RECURSIVE JoinText(_, _)
JoinText(cells, sep) ==
    IF Len(cells) = 0 THEN ""
    ELSE IF Len(cells) = 1 THEN cells[1]
    ELSE cells[1] \o sep \o JoinText(Tail(cells), sep)

\* pd.read_csv(file, sep=delimiter) of a comma-separated file: the right
\* separator (or None, which sniffs it) splits the columns, any other leaves
\* each line one cell
read_csv(file, delimiter) ==
    IF delimiter = JNull \/ delimiter = JStr(",")
    THEN Frame("raw", file.cols, ReadRows(file))
    ELSE Frame("raw", <<JoinText(file.cols, ",")>>,
               [r \in 1..Len(file.rows) |->
                   <<JStr(JoinText([i \in 1..Len(file.cols) |-> file.rows[r][i].s], ","))>>])

\* frame.to_csv(path, index=False)
to_csv(f) == Frame("csv", f.cols, WriteRows(f))

\* ------------------------------------------------------------------------
\* Files written by the stages
\* ------------------------------------------------------------------------
NoModel == [kind |-> "none", history |-> NoData, holidays |-> JNull]
File(kind, frame, m) == [kind |-> kind, frame |-> frame, model |-> m]
NoFile == File("none", NoData, NoModel)
Partial == File("partial", NoData, NoModel)     \* a write that did not finish
CsvFile(f) == File("csv", to_csv(f), NoModel)
Pickle(m) == File("pickle", NoData, m)          \* pickle.dump(model, f)

IOOutcomes == {"ok", "mkdir_fails", "open_fails", "write_fails"}
\* the outcomes a stage with output path uri can meet: none but "ok" when it
\* writes nothing
Outcomes(uri) == IF uri = JNull THEN {"ok"} ELSE IOOutcomes

\* a mutant of the write: it reports success and leaves the file alone
Save_skips_write(uri, content, fs, ds, io) == [ok |-> TRUE, dirs |-> ds, files |-> fs]

\* _create_parent_dir(path) followed by the write of `content` to path, under
\* the I/O outcome io: the directories and files afterwards, and whether the
\* write completed
Save(uri, content, fs, ds, io) ==
    LET p == uri.s
        parent == IF uri.t = "str" THEN ParentDir(p) ELSE ""
        mkdirOK == uri.t = "str" /\ (parent = "" \/ parent \in ds \/ io # "mkdir_fails")
        ds1 == IF mkdirOK /\ parent # "" THEN ds \cup {parent} ELSE ds
        openOK == mkdirOK /\ p \in DOMAIN fs /\ io \notin {"mkdir_fails", "open_fails"}
        done == openOK /\ io = "ok"
    IN [ok |-> done,
        dirs |-> ds1,
        files |-> IF openOK
                  THEN [q \in DOMAIN fs |-> IF q = p
                                            THEN (IF done THEN content ELSE Partial)
                                            ELSE fs[q]]
                  ELSE fs]


\* ------------------------------------------------------------------------
\* make_data
\* ------------------------------------------------------------------------
\* the timestamp column parsed in place (line 176)
ParseColumn(f, name) ==
    Frame(f.kind, f.cols,
          [r \in 1..Len(f.rows) |->
              [i \in 1..Len(f.cols) |->
                  IF f.cols[i] = name THEN ParseCell(f.rows[r][i]) ELSE f.rows[r][i]]])

\* the rows of the left join for one calendar slot: one per matching raw row,
\* in the raw order, or a single row with the missing marker
RECURSIVE Matches(_, _, _, _, _)
Matches(f, dsname, yname, day, r) ==
    IF r > Len(f.rows) THEN <<>>
    ELSE (IF Cell(f, r, dsname) = Ts(day)
          THEN << <<Ts(day), Cell(f, r, yname)>> >> ELSE <<>>)
         \o Matches(f, dsname, yname, day, r + 1)

\* a mutant of the join: a calendar slot without observation is dropped
InnerJoinRows(f, dsname, yname, day) == Matches(f, dsname, yname, day, 1)

SlotRows(f, dsname, yname, day) ==
    LET m == Matches(f, dsname, yname, day, 1)
    IN IF m = <<>> THEN << <<Ts(day), NaN>> >> ELSE m

\* calendar.merge(raw[[ds, y]], how='left'), the raw timestamp column dropped
\* and the value column renamed to y (lines 184-189)
RECURSIVE merge(_, _, _, _)
merge(cal, f, dsname, yname) ==
    IF cal = <<>> THEN <<>>
    ELSE SlotRows(f, dsname, yname, Head(cal)) \o merge(Tail(cal), f, dsname, yname)

\* frame.fillna(v)
fillna(rows, v) ==
    [r \in 1..Len(rows) |->
        [i \in 1..Len(rows[r]) |-> IF rows[r][i].t = "nan" THEN NumOf(v) ELSE rows[r][i]]]

\* frame[name] = v: a constant column appended
AddColumn(f, name, v) ==
    Frame(f.kind, Append(f.cols, name),
          [r \in 1..Len(f.rows) |-> Append(f.rows[r], NumOf(v))])

\* a mutant of the date resolution: the configured bound is overwritten by
\* the observed one
ResolveDate_always_derives(configured, derived) == derived

\* lines 177-180: the configured bound, or the observed one when unset
ResolveDate(configured, derived) ==
    IF configured = JNull THEN derived ELSE configured

\* a mutant of the failure path: the data attribute is restored when a later
\* statement raises
DataOnFailure_rolls_back(cur, raw) == cur

\* self.data is assigned the frame read (line 175) and its timestamp column
\* parsed in place (line 176) before the rest runs, so this is what it holds
\* when a later statement raises
DataOnFailure(cur, raw) == raw

\* The whole of make_data on attributes a, the file at data_uri (NoData when
\* there is none) and the I/O outcome io.  `at` names the statement that
\* raised, "" when none did.
MakeData(a, cur, file, fs, ds, io) ==
    LET readOK == /\ a.data_uri = JStr(DataPath)
                  /\ file.kind = "csv"
                  /\ (a.delimiter = JNull \/ a.delimiter.t = "str")
        raw == read_csv(file, a.delimiter)
        parseOK == /\ a.ds.t = "str"
                   /\ HasCol(raw, a.ds.s)
                   /\ \A r \in 1..Len(raw.rows) : CanParseCell(Cell(raw, r, a.ds.s))
        parsed == ParseColumn(raw, a.ds.s)
        mn == ResolveDate(a.min_train_date, ColMin(parsed, a.ds.s))
        mx == ResolveDate(a.max_train_date, ColMax(parsed, a.ds.s))
        dated == [a EXCEPT !.min_train_date = mn, !.max_train_date = mx]
        rangeOK == CanTimestamp(mn) /\ CanTimestamp(mx) /\ ValidFreq(a.ts_frequency)
        cal == date_range(ToDay(mn), ToDay(mx), FreqStep(a.ts_frequency))
        \* self.data[[self.ds, self.y]]: both are columns (a value column that
        \* is, or is named like, the timestamp column is outside the model)
        selectOK == a.y.t = "str" /\ HasCol(parsed, a.y.s) /\ a.y.s \notin {a.ds.s, "ds"}
        joined == merge(cal, parsed, a.ds.s, a.y.s)
        filled == IF a.na_fill # JNull THEN fillna(joined, a.na_fill) ELSE joined
        f0 == Frame("prepared", <<"ds", "y">>, filled)
        f1 == IF a.saturating_min # JNull THEN AddColumn(f0, "floor", a.saturating_min) ELSE f0
        model_data == IF a.saturating_max # JNull
                      THEN AddColumn(f1, "cap", a.saturating_max) ELSE f1
        saved == Save(a.train_uri, CsvFile(model_data), fs, ds, io)
        Out(at, d, at2, w) ==
            [ok |-> at = "", at |-> at, data |-> d, attrs |-> at2,
             files |-> IF w THEN saved.files ELSE fs,
             dirs |-> IF w THEN saved.dirs ELSE ds]
    IN CASE ~readOK -> Out("read", cur, a, FALSE)
         [] readOK /\ ~parseOK -> Out("parse", DataOnFailure(cur, raw), a, FALSE)
         [] readOK /\ parseOK /\ ~rangeOK -> Out("date_range", DataOnFailure(cur, parsed), dated, FALSE)
         [] readOK /\ parseOK /\ rangeOK /\ ~selectOK -> Out("merge", DataOnFailure(cur, parsed), dated, FALSE)
         [] readOK /\ parseOK /\ rangeOK /\ selectOK /\ a.train_uri # JNull /\ ~saved.ok
              -> Out("to_csv", DataOnFailure(cur, parsed), dated, TRUE)
         [] OTHER -> Out("", model_data, dated, a.train_uri # JNull)


\* ------------------------------------------------------------------------
\* train and predict.  The forecasting library is opaque: a fit or a
\* prediction may fail on any input (fitok, predok), and can succeed only on
\* an input the library accepts.
\* ------------------------------------------------------------------------
Yhat == Val("yhat", 0, "")                      \* a predicted value

RECURSIVE CountObserved(_, _)
CountObserved(f, r) ==
    IF r > Len(f.rows) THEN 0
    ELSE (IF Cell(f, r, "y").t = "num" THEN 1 ELSE 0) + CountObserved(f, r + 1)

\* Prophet(...).fit(df) needs a frame with columns ds and y, timestamps it can
\* read, numeric values with at least two observed, and holidays None or a
\* data frame (which no JSON value is)
Fittable(a, d) ==
    /\ a.holidays = JNull
    /\ d.kind # "none"
    /\ HasCol(d, "ds") /\ HasCol(d, "y")
    /\ \A r \in 1..Len(d.rows) :
          /\ CanTimestamp(Cell(d, r, "ds"))
          /\ Cell(d, r, "y").t \in {"num", "nan"}
    /\ CountObserved(d, 1) >= 2

\* the holidays argument of Prophet(...) (line 213)
HolidaysArg(a) == a.holidays

Fit(a, d) ==
    [kind |-> "model", history |-> ParseColumn(d, "ds"), holidays |-> HolidaysArg(a)]

Train(a, cur, d, fs, ds, io, fitok) ==
    LET fitOK == fitok /\ Fittable(a, d)
        m == Fit(a, d)
        saved == Save(a.model_uri, Pickle(m), fs, ds, io)
        Out(at, mm, w) ==
            [ok |-> at = "", at |-> at, model |-> mm,
             files |-> IF w THEN saved.files ELSE fs,
             dirs |-> IF w THEN saved.dirs ELSE ds]
    IN CASE ~fitOK -> Out("fit", cur, FALSE)
         [] fitOK /\ a.model_uri # JNull /\ ~saved.ok -> Out("pickle", cur, TRUE)
         [] OTHER -> Out("", m, a.model_uri # JNull)

RECURSIVE SortedDays(_)
SortedDays(S) ==
    IF S = {} THEN <<>>
    ELSE LET lo == CHOOSE x \in S : \A z \in S : x <= z
         IN <<lo>> \o SortedDays(S \ {lo})

\* model.make_future_dataframe(periods, freq): the distinct training
\* timestamps in order, then periods further steps after the last
make_future_dataframe(m, periods, step) ==
    LET seen == {Cell(m.history, r, "ds").n : r \in 1..Len(m.history.rows)}
        hist == SortedDays(seen)
        lastday == hist[Len(hist)]
    IN hist \o [k \in 1..periods |-> lastday + k * step]

Predict(a, cur, m, fs, ds, io, predok) ==
    LET predOK == /\ predok
                  /\ m.kind = "model"
                  /\ a.future_periods.t \in {"int", "bool"} /\ a.future_periods.n >= 0
                  /\ ValidFreq(a.ts_frequency)
        future == make_future_dataframe(m, a.future_periods.n, FreqStep(a.ts_frequency))
        fc == Frame("forecast", <<"ds", "yhat">>,
                    [r \in 1..Len(future) |-> <<Ts(future[r]), Yhat>>])
        saved == Save(a.output_uri, CsvFile(fc), fs, ds, io)
        Out(at, f, w) ==
            [ok |-> at = "", at |-> at, forecast |-> f,
             files |-> IF w THEN saved.files ELSE fs,
             dirs |-> IF w THEN saved.dirs ELSE ds]
    IN CASE ~predOK -> Out("predict", cur, FALSE)
         [] predOK /\ a.output_uri # JNull /\ ~saved.ok -> Out("to_csv", cur, TRUE)
         [] OTHER -> Out("", fc, a.output_uri # JNull)

\* the files the environment may put at data_uri later on
GoodFile ==
    Frame("csv", <<"ds", "y">>, [r \in 1..MaxRows |-> <<JStr(DateStr(r)), JStr("5")>>])
LateFile == Frame("csv", <<"ds", "y">>, << <<JStr(DateStr(MaxDate)), JStr("7")>> >>)
Rewrites == {GoodFile, LateFile}

\* ------------------------------------------------------------------------
\* State
\* ------------------------------------------------------------------------
VARIABLES
    config,        \* the parsed config document (self._config)
    source,        \* the file at data.csv, NoData when there is none
    constructed,   \* "no", "ok" (a pipeline object exists) or "failed"
    error,         \* the error the last call raised, NoError when none
    attrs,         \* the attributes __init__ set on the object
    data,          \* self.data
    model,         \* self.model
    forecast,      \* self.forecast (NoData until predict sets it)
    files,         \* the files at the output paths
    dirs,          \* the directories that exist
    last           \* the last call: its name, whether it returned, where it raised

vars == <<config, source, constructed, error, attrs, data, model, forecast,
          files, dirs, last>>

Call(op, at) == [op |-> op, ok |-> at = "", at |-> at]

\* Prophetable(config)
Construct ==
    /\ constructed = "no"
    /\ LET r == Resolve(config)
       IN /\ error' = r.err
          /\ constructed' = IF r.err = NoError THEN "ok" ELSE "failed"
          /\ attrs' = IF r.err = NoError THEN r.attrs ELSE EmptyAttrs
          /\ last' = Call("init", IF r.err = NoError THEN "" ELSE "config")
    /\ UNCHANGED <<config, source, data, model, forecast, files, dirs>>

make_data ==
    /\ constructed = "ok"
    /\ \E io \in Outcomes(attrs.train_uri) :
          LET r == MakeData(attrs, data, source, files, dirs, io)
          IN /\ data' = r.data
             /\ attrs' = r.attrs
             /\ files' = r.files
             /\ dirs' = r.dirs
             /\ last' = Call("make_data", r.at)
             /\ error' = IF r.ok THEN NoError ELSE Raise("Exception", r.at)
    /\ UNCHANGED <<config, source, constructed, model, forecast>>

train ==
    /\ constructed = "ok"
    /\ \E io \in Outcomes(attrs.model_uri), fitok \in BOOLEAN :
          LET r == Train(attrs, model, data, files, dirs, io, fitok)
          IN /\ model' = r.model
             /\ files' = r.files
             /\ dirs' = r.dirs
             /\ last' = Call("train", r.at)
             /\ error' = IF r.ok THEN NoError ELSE Raise("Exception", r.at)
    /\ UNCHANGED <<config, source, constructed, attrs, data, forecast>>

\* the environment replaces the file at data_uri between two calls
rewrite_source ==
    /\ constructed = "ok"
    /\ source' \in Rewrites \ {source}
    /\ last' = Call("rewrite", "")
    /\ UNCHANGED <<config, constructed, error, attrs, data, model, forecast, files, dirs>>

predict ==
    /\ constructed = "ok"
    /\ \E io \in Outcomes(attrs.output_uri), predok \in BOOLEAN :
          LET r == Predict(attrs, forecast, model, files, dirs, io, predok)
          IN /\ forecast' = r.forecast
             /\ files' = r.files
             /\ dirs' = r.dirs
             /\ last' = Call("predict", r.at)
             /\ error' = IF r.ok THEN NoError ELSE Raise("Exception", r.at)
    /\ UNCHANGED <<config, source, constructed, attrs, data, model>>


\* ------------------------------------------------------------------------
\* Inputs: config documents and source files
\* ------------------------------------------------------------------------
\* the documents with at most n of the keys of vals present, each with one of
\* its values vals[k]
RECURSIVE SubsetsUpTo(_, _)
SubsetsUpTo(Keys, n) ==
    IF n = 0 THEN {{}}
    ELSE LET smaller == SubsetsUpTo(Keys, n - 1)
         IN smaller \cup {K \cup {k} : K \in smaller, k \in Keys}

DocsOver(vals, n) ==
    UNION { {f \in [K -> UNION {vals[k] : k \in K}] : \A k \in K : f[k] \in vals[k]} :
            K \in SubsetsUpTo(DOMAIN vals, n) }

WithDataUri(doc) == doc @@ ("data_uri" :> JStr(DataPath))

\* one value of every JSON type
JsonSamples ==
    {JNull, JBool(TRUE), JInt(1), JFloat(1, "5"), JStr("x"), JList("1"), JDict("a")}

\* the recognized settings and one key that is none
AllKeys == SettingNames \cup {"comment"}

ConfigDocs ==
    LET rest == DocsOver([k \in AllKeys \ {"data_uri"} |-> JsonSamples], MaxCfgKeys)
    IN rest \cup {WithDataUri(d) : d \in rest}

\* documents that exercise the data preparation
DataKeys ==
    {"min_train_date", "max_train_date", "na_fill", "ts_frequency", "ds", "y",
     "delimiter", "saturating_min", "saturating_max", "train_uri"}
DataVals == [k \in DataKeys |->
    CASE k \in {"min_train_date", "max_train_date"} -> {JStr(DateStr(d)) : d \in Days}
      [] k = "na_fill" -> {JInt(0)}
      [] k = "ts_frequency" -> {JStr("2D")}
      [] k = "ds" -> {JStr("date")}
      [] k = "y" -> {JStr("value")}
      [] k = "delimiter" -> {JStr(";")}
      [] k = "saturating_min" -> {JInt(0)}
      [] k = "saturating_max" -> {JInt(9)}
      [] OTHER -> {JStr("out/train.csv")}]

\* every setting of DataKeys alone, and the date bounds and the fill value in
\* pairs
DataDocs ==
    {WithDataUri(d) :
        d \in DocsOver(DataVals, 1)
              \cup DocsOver([k \in {"min_train_date", "max_train_date", "na_fill"} |->
                                 DataVals[k]], 2)}

\* documents that exercise the stages and their output files
PipeKeys ==
    {"train_uri", "model_uri", "output_uri", "holiday_input_uri", "holidays", "ds", "y",
     "future_periods", "na_fill"}
PipeVals == [k \in PipeKeys |->
    CASE k = "train_uri" -> {JStr("out/train.csv"), JStr("train.csv")}
      [] k = "model_uri" -> {JStr("out/model.pkl")}
      [] k = "output_uri" -> {JStr("out/forecast.csv"), JStr("out/train.csv")}
      [] k = "holiday_input_uri" -> {JStr("holidays.csv")}
      [] k = "holidays" -> {JList("2020-01-01")}
      [] k = "ds" -> {JStr("date")}
      [] k = "y" -> {JStr("value")}
      [] k = "future_periods" -> {JInt(2)}
      [] OTHER -> {JInt(0)}]
PipeDocs == {WithDataUri(d) : d \in DocsOver(PipeVals, MaxOptKeys)}

\* the comma-separated files with header h and at most MaxRows rows: a
\* timestamp text (a day, or text that is no date) and a value text (a
\* number, or nothing)
DsTexts == {DateStr(d) : d \in Days} \cup {"garbage"}
YTexts == {"5", "7", ""}
CsvRows == {<<JStr(t), JStr(v)>> : t \in DsTexts, v \in YTexts}
CsvFiles(h) ==
    UNION { {Frame("csv", h, rows) : rows \in [1..n -> CsvRows]} : n \in 0..MaxRows }
\* those whose rows are all well-formed observations of 5
PlainRows == {<<JStr(DateStr(d)), JStr("5")>> : d \in Days}
PlainFiles ==
    UNION { {Frame("csv", <<"ds", "y">>, rows) : rows \in [1..n -> PlainRows]} :
            n \in 0..MaxRows }

DataSources ==
    CsvFiles(<<"ds", "y">>)
    \cup {Frame("csv", <<"date", "y">>, <<r>>) : r \in CsvRows}
    \cup {NoData}

GarbageFile ==
    Frame("csv", <<"ds", "y">>,
          [r \in 1..MaxRows |-> <<JStr(IF r = 1 THEN "garbage" ELSE DateStr(r)), JStr("5")>>])
EmptyFile == Frame("csv", <<"ds", "y">>, <<>>)
PipeSources == {GoodFile, GarbageFile, EmptyFile, NoData}

InitWith(docs, sources) ==
    /\ config \in docs
    /\ source \in sources
    /\ constructed = "no"
    /\ error = NoError
    /\ attrs = EmptyAttrs
    /\ data = NoData
    /\ model = NoModel
    /\ forecast = NoData
    /\ files = [p \in OutPaths |-> NoFile]
    /\ dirs = {}
    /\ last = Call("none", "")

\* the config loader on documents of every shape
InitConfig == InitWith(ConfigDocs, {GoodFile})
NextConfig == Construct
SpecConfig == InitConfig /\ [][NextConfig]_vars

\* the data preparation on every source file
InitData == InitWith(DataDocs, DataSources)
NextData == Construct \/ make_data
SpecData == InitData /\ [][NextData]_vars

\* the data preparation called again and again while the source file changes
RerunKeys == {"min_train_date", "max_train_date", "ts_frequency"}
RerunDocs == {WithDataUri(d) : d \in DocsOver([k \in RerunKeys |-> DataVals[k]], 2)}
InitRerun == InitWith(RerunDocs, PlainFiles)
NextRerun == Construct \/ make_data \/ rewrite_source
SpecRerun == InitRerun /\ [][NextRerun]_vars

\* the whole pipeline, its stages called in any order
Init == InitWith(PipeDocs, PipeSources)
Next == Construct \/ make_data \/ train \/ predict
Spec == Init /\ [][Next]_vars


\* ========================================================================
\* Properties
\* ========================================================================
Returned(op) == last.op = op /\ last.ok
\* a step is a call of op when it leaves op as the last call
ReturnsNow(op) == last'.op = op /\ last'.ok
RaisesNow(op) == last'.op = op /\ ~last'.ok

\* ---- the config loader (SpecConfig) -------------------------------------

\* C1: a document without data_uri makes the construction fail with the
\* missing-setting error (a ValueError) naming data_uri, and no pipeline
\* object exists, whatever other keys the document has.
C1_MissingRequired ==
    (constructed # "no" /\ "data_uri" \notin DOMAIN config)
        => /\ constructed = "failed"
           /\ error = Raise("ValueError", "data_uri")
           /\ attrs = EmptyAttrs

C1_Witness ==
    /\ constructed = "failed"
    /\ "data_uri" \notin DOMAIN config
    /\ "na_fill" \in DOMAIN config
    /\ error.attr = "data_uri"

\* the settings that declare a type-check set, and the set of each
TypedSettings == {Settings[i].name : i \in {j \in 1..Len(Settings) : Settings[j].check # NoCheck}}
DeclaredTypes(name) == SettingOf[name].check

\* the type of a JSON value, as the claim reads it: null has none of the
\* declared types and a boolean is a boolean
JsonType(v) == IF v.t = "null" THEN "NoneType" ELSE v.t

Accepted(types, v) ==
    \/ v.t = "null"
    \/ v.t \in types
    \/ (v.t = "bool" /\ "int" \in types)

Default(name) ==
    CASE name = "delimiter" -> JStr(",")
      [] name = "ds" -> JStr("ds")
      [] name = "y" -> JStr("y")
      [] name = "ts_frequency" -> JStr("D")
      [] name = "growth" -> JStr("linear")
      [] name = "n_changepoints" -> JInt(25)
      [] name = "changepoint_range" -> JFloat(0, "8")
      [] name \in {"yearly_seasonality", "weekly_seasonality", "daily_seasonality"}
           -> JStr("auto")
      [] name = "seasonality_mode" -> JStr("additive")
      [] name \in {"seasonality_prior_scale", "holidays_prior_scale"} -> JFloat(10, "0")
      [] name = "changepoint_prior_scale" -> JFloat(0, "05")
      [] name = "mcmc_samples" -> JInt(0)
      [] name = "interval_width" -> JFloat(0, "8")
      [] name = "uncertainty_samples" -> JInt(1000)
      [] name = "future_periods" -> JInt(365)
      [] OTHER -> JNull

\* C3: after a successful construction every setting is an attribute: the
\* document's value when the document has the key, the default otherwise;
\* a key that is no setting is ignored and is never the cause of a failure.
C3_Defaults ==
    /\ constructed = "ok"
         => /\ DOMAIN attrs = SettingNames
            /\ \A n \in SettingNames :
                  attrs[n] = IF n \in DOMAIN config THEN config[n] ELSE Default(n)
    /\ constructed = "failed" => error.attr \in SettingNames

C3_Witness ==
    /\ constructed = "ok"
    /\ "comment" \in DOMAIN config
    /\ "n_changepoints" \notin DOMAIN config
    /\ attrs["n_changepoints"] = JInt(25)
    /\ attrs["train_uri"] = JNull


\* ---- the data preparation (SpecData) ------------------------------------

\* the day column of a prepared series
DsDays(f) == [r \in 1..Len(f.rows) |-> Cell(f, r, "ds").n]

\* the calendar the attributes prescribe after a make_data
Lo == ToDay(attrs.min_train_date)
Hi == ToDay(attrs.max_train_date)
Step == FreqStep(attrs.ts_frequency)
Slots == {d \in Lo..Hi : (d - Lo) % Step = 0}

\* the raw observations, read off the source file: the values of the rows
\* whose timestamp text is the day, in file order
SrcCol(name) == CHOOSE i \in 1..Len(source.cols) : source.cols[i] = name
RECURSIVE ObsFrom(_, _)
ObsFrom(day, r) ==
    IF r > Len(source.rows) THEN <<>>
    ELSE (IF source.rows[r][SrcCol(attrs.ds.s)].s = DateStr(day)
          THEN <<ReadCell(source.rows[r][SrcCol(attrs.y.s)])>> ELSE <<>>)
         \o ObsFrom(day, r + 1)
Obs(day) == ObsFrom(day, 1)
SrcDays == {d \in Days : \E r \in 1..Len(source.rows) :
                            source.rows[r][SrcCol(attrs.ds.s)].s = DateStr(d)}

\* the values the prepared series has for a day, in order
RECURSIVE ValuesFrom(_, _)
ValuesFrom(day, r) ==
    IF r > Len(data.rows) THEN <<>>
    ELSE (IF Cell(data, r, "ds").n = day THEN <<Cell(data, r, "y")>> ELSE <<>>)
         \o ValuesFrom(day, r + 1)
Values(day) == ValuesFrom(day, 1)

\* C4 as stated: after a successful make_data the timestamp column is
\* strictly increasing and gap-free at the configured frequency, with
\* exactly one row for every calendar slot and no other row.
C4_AsStated ==
    Returned("make_data")
        => LET d == DsDays(data)
           IN /\ \A i \in 1..(Len(d) - 1) : d[i + 1] = d[i] + Step
              /\ \A i \in 1..Len(d) : d[i] \in Slots
              /\ \A day \in Slots : Cardinality({i \in 1..Len(d) : d[i] = day}) = 1

Configured(name) == name \in DOMAIN config /\ config[name] # JNull

\* the bounds of the raw series in the source file
DerivedMin == IF SrcDays = {} THEN NaT ELSE Ts(CHOOSE d \in SrcDays : \A e \in SrcDays : d <= e)
DerivedMax == IF SrcDays = {} THEN NaT ELSE Ts(CHOOSE d \in SrcDays : \A e \in SrcDays : d >= e)

\* C5 as stated, its last part: after a successful make_data both bounds
\* are set and are the first and the last timestamp of the prepared
\* calendar.
C5_AsStated ==
    Returned("make_data")
        => /\ attrs.min_train_date # JNull /\ attrs.max_train_date # JNull
           /\ Len(data.rows) > 0
           /\ DsDays(data)[1] = Lo
           /\ DsDays(data)[Len(data.rows)] = Hi

\* C5, amended: at every make_data a bound that is set (configured, or
\* written back by an earlier make_data) is used and left unchanged, and a
\* bound that is still unset is derived from the raw series read by this
\* call and written back, each on its own; after a successful make_data both
\* are set and, the frequency being a fixed number of days, the prepared
\* calendar starts at min_train_date and ends at the last slot
\* min_train_date + k periods that is not after max_train_date
\* (max_train_date itself when the span is a whole number of periods), and
\* it is empty when min_train_date is after max_train_date.
C5_Resolved ==
    [][ /\ last'.op = "make_data" =>
            /\ attrs.min_train_date # JNull => attrs'.min_train_date = attrs.min_train_date
            /\ attrs.max_train_date # JNull => attrs'.max_train_date = attrs.max_train_date
        /\ (last'.op = "make_data" /\ last'.at \notin {"read", "parse"}) =>
            /\ attrs.min_train_date = JNull => attrs'.min_train_date = DerivedMin
            /\ attrs.max_train_date = JNull => attrs'.max_train_date = DerivedMax
        /\ ReturnsNow("make_data") =>
            /\ attrs'.min_train_date \notin {JNull, NaT}
            /\ attrs'.max_train_date \notin {JNull, NaT}
            /\ IF Lo' <= Hi'
               THEN /\ Len(data'.rows) > 0
                    /\ DsDays(data')[1] = Lo'
                    /\ DsDays(data')[Len(data'.rows)] = Lo' + ((Hi' - Lo') \div Step) * Step
               ELSE data'.rows = <<>>
      ]_vars

\* a second make_data, after the source file was replaced: the bounds the
\* first one derived are kept
C5_Witness ==
    /\ Returned("make_data")
    /\ source = LateFile
    /\ ~Configured("min_train_date") /\ Configured("max_train_date")
    /\ attrs.min_train_date = Ts(1)
    /\ attrs.max_train_date = JStr(DateStr(2))
    /\ DsDays(data) = <<1, 2>>

\* the value of a slot without observation
Unobserved == IF attrs.na_fill # JNull THEN NumOf(attrs.na_fill) ELSE NaN

\* C6 as stated: every calendar slot keeps its row; a slot without raw
\* observation has na_fill, or the missing marker when na_fill is unset; a
\* slot with raw observations has their values unchanged.
C6_AsStated ==
    Returned("make_data")
        => \A day \in Slots :
              Values(day) = IF Obs(day) = <<>> THEN <<Unobserved>> ELSE Obs(day)

\* C6, amended: as stated, except that a raw observation whose value is
\* itself missing is filled like an unobserved slot: with na_fill configured
\* it carries na_fill, not the missing marker.
C6_Filled ==
    Returned("make_data")
        => \A day \in Slots :
              Values(day) =
                 IF Obs(day) = <<>> THEN <<Unobserved>>
                 ELSE [i \in 1..Len(Obs(day)) |->
                          IF Obs(day)[i] = NaN THEN Unobserved ELSE Obs(day)[i]]

C6_Witness ==
    /\ Returned("make_data")
    /\ attrs.na_fill = JInt(0)
    /\ Slots = {1, 2, 3}
    /\ Obs(1) = <<Num(5)>> /\ Values(1) = <<Num(5)>>
    /\ Obs(2) = <<>> /\ Values(2) = <<Num(0)>>
    /\ Obs(3) = <<NaN>> /\ Values(3) = <<Num(0)>>


\* ---- the pipeline (Spec) ------------------------------------------------

\* C7 as stated: no stage is skipped, over any sequence of calls, failed
\* ones included: a fitted model was fitted on a prepared series, and a
\* forecast exists only with a fitted model.
C7_AsStated ==
    /\ model.kind = "model" => model.history.kind = "prepared"
    /\ forecast.kind = "forecast" => model.kind = "model"

\* what a CSV file reads back as, its timestamp column parsed
ReadBack(f) == ParseColumn(read_csv(f.frame, JStr(",")), "ds")
Untouched(paths) == \A q \in OutPaths \ paths : files'[q] = files[q]

\* C8: a stage that returns has written its artifact when its output path
\* is configured: the file at train_uri reads back as the prepared series
\* now in data, the file at model_uri is the pickled model now in model,
\* the file at output_uri is the forecast now in forecast, and no other
\* file changed; a stage without output path writes nothing.
C8_Persisted ==
    [][ /\ ReturnsNow("make_data") =>
            IF attrs.train_uri # JNull
            THEN /\ data'.kind = "prepared"
                 /\ files'[attrs.train_uri.s].kind = "csv"
                 /\ files'[attrs.train_uri.s].frame.cols = data'.cols
                 /\ ReadBack(files'[attrs.train_uri.s]).rows = data'.rows
                 /\ Untouched({attrs.train_uri.s})
            ELSE files' = files /\ dirs' = dirs
        /\ ReturnsNow("train") =>
            IF attrs.model_uri # JNull
            THEN /\ model'.kind = "model"
                 /\ files'[attrs.model_uri.s] = Pickle(model')
                 /\ Untouched({attrs.model_uri.s})
            ELSE files' = files /\ dirs' = dirs
        /\ ReturnsNow("predict") =>
            IF attrs.output_uri # JNull
            THEN /\ forecast'.kind = "forecast"
                 /\ files'[attrs.output_uri.s] = File("csv", to_csv(forecast'), NoModel)
                 /\ Untouched({attrs.output_uri.s})
            ELSE files' = files /\ dirs' = dirs
      ]_vars

C8_Witness ==
    /\ Returned("predict")
    /\ attrs.output_uri = JStr("out/train.csv")
    /\ attrs.train_uri = JStr("out/train.csv")
    /\ data.kind = "prepared"
    /\ files["out/train.csv"].frame.kind = "csv"
    /\ files["out/train.csv"].frame.cols = <<"ds", "yhat">>
    /\ "out" \in dirs

\* the data frame a holidays file would be read into
HolidayFrame(uri) == Val("frame", 0, uri.s)

\* C9 as stated: with holiday_input_uri configured the model's holidays are
\* the contents of that file, whatever the holidays setting; without it
\* they are the holidays setting.
C9_AsStated ==
    model.kind = "model"
        => model.holidays = IF attrs.holiday_input_uri # JNull
                            THEN HolidayFrame(attrs.holiday_input_uri)
                            ELSE attrs.holidays

\* the raw series of the source file as make_data reads it
RawRead == read_csv(source, attrs.delimiter)

\* C10: a failed stage rolls nothing back.  A make_data that raises after
\* the read leaves the raw series in data (its timestamps parsed when the
\* parse was passed), and once the bounds were resolved the derived ones
\* stay in the attributes; a train or predict that raises leaves data,
\* model and forecast as they were.
C10_NoRollback ==
    [][ /\ (RaisesNow("make_data") /\ last'.at # "read") =>
            /\ data'.kind = "raw"
            /\ data' = IF last'.at = "parse" THEN RawRead
                       ELSE ParseColumn(RawRead, attrs.ds.s)
            /\ last'.at # "parse" =>
                  /\ attrs'.min_train_date =
                        IF attrs.min_train_date = JNull THEN DerivedMin
                        ELSE attrs.min_train_date
                  /\ attrs'.max_train_date =
                        IF attrs.max_train_date = JNull THEN DerivedMax
                        ELSE attrs.max_train_date
            /\ model' = model /\ forecast' = forecast
        /\ (RaisesNow("train") \/ RaisesNow("predict")) =>
            /\ data' = data /\ model' = model /\ forecast' = forecast
      ]_vars

C10_Witness ==
    /\ last = Call("make_data", "to_csv")
    /\ data.kind = "raw"
    /\ Cell(data, 1, "ds") = Ts(1)
    /\ ~Configured("min_train_date")
    /\ attrs.min_train_date = Ts(1)
    /\ model.kind = "model"
    /\ model.history.kind = "prepared"

====
